---------------------------- MODULE Spec2Model ----------------------------
(***************************************************************************)
(* A model of hefind.py: the helium line finder of the sloany repository.  *)
(*                                                                         *)
(* Arrays are sequences.  The source indexes from 0 and the sequences from *)
(* 1: every index variable of the model (pos, min_pos, the centers, the    *)
(* line indices) is the source's 0-based index, and At(a, i) reads a[i].   *)
(*                                                                         *)
(* The source computes in floating point.  The model computes the same     *)
(* expressions exactly, on rationals held as integer numerators over a     *)
(* common denominator that is part of the state:                           *)
(*   - fluxes holds the flux values themselves (integers);                 *)
(*   - smoothed, eroded, dilated and corrected hold numerators over den,   *)
(*     where den is window_width^(passes done): one smoothing pass sums a  *)
(*     window and divides by window_width;                                 *)
(*   - residual holds numerators over den;                                 *)
(*   - noise holds numerators over den * fl_window_width (the window sum   *)
(*     of residual, which the source divides by the window width);         *)
(*   - wavelengths are integers in units of 1/WavScale angstrom.           *)
(* Rounding error of the floating point operations is not modelled.        *)
(***************************************************************************)
EXTENDS Integers, Sequences, FiniteSets, TLC

VARIABLES
    pc,               \* position in the program
    wavs,             \* find_helium: wavelengths, in 1/WavScale angstrom
    fluxes,           \* the raw fluxes
    window_width,     \* smooth_spectrum: parameter
    passes,           \* smooth_spectrum: parameter
    i,                \* smooth_spectrum: passes done
    smoothed,         \* numerators over den
    den,              \* common denominator of smoothed and corrected
    eroded,           \* white_tophat: grey erosion of -fluxes
    dilated,          \* white_tophat: grey dilation of eroded (the opening)
    corrected,        \* baseline corrected spectrum, numerators over den
    threshold,        \* find_lines: parameter
    fraction_pts,     \* find_lines, baseline: parameter, <<numerator, denominator>>
    fl_window_width,  \* find_lines: window_width
    half_width,       \* find_lines: half_width
    residual,         \* find_lines: reflected residual, numerators over den
    noise,            \* find_lines: numerators over den * fl_window_width
    pos,              \* find_lines: scan position
    min_pos,          \* find_lines: start of the last scan iteration
    ranges,           \* history: the ranges <<min_pos, pos>> handled as complexes
    iterations,       \* history: iterations of the outer loop of find_lines
    line_indices,     \* find_lines: the (center, sn) pairs
    line_complex,     \* find_centers: argument
    centers,          \* find_centers: result
    li,               \* find_helium: lines of line_indices_sn matched so far
    found,            \* find_helium: the matches
    verdict,          \* find_helium: "none" until decided, then "positive"
                      \* (the file name is printed) or "negative"
    filenames,        \* run: args.filenames, the files themselves
    fname,            \* run: 0-based position of the loop in filenames
    f,                \* find_helium: the lines of the open file not read yet
    nb_wavs,          \* find_helium: the sample count of the header
    alist,            \* read_list: the values read so far
    verdicts          \* history: the verdict of every file finished

vars == <<pc, wavs, fluxes, window_width, passes, i, smoothed, den, eroded,
          dilated, corrected, threshold, fraction_pts, fl_window_width,
          half_width, residual, noise, pos, min_pos, ranges, iterations,
          line_indices,
          line_complex, centers, li, found, verdict, filenames, fname, f,
          nb_wavs, alist, verdicts>>

----------------------------------------------------------------------------
(* Bounds of the model. *)

MaxSmoothLen == 7

MaxPasses == 3

MaxAffineLen == 16

MaxBaselineLen == 5

MaxSegmentLen == 5

MaxLinesLen == 4

MaxDetected == 3

SmallLen == 150

MaxSmallDip == 4

MaxShift == 3

----------------------------------------------------------------------------
(* Array helpers. *)

\* a[i] with the source's 0-based index.
At(a, idx) == a[idx + 1]

Abs(x) == IF x < 0 THEN -x ELSE x

Min2(a, b) == IF a <= b THEN a ELSE b

Max2(a, b) == IF a >= b THEN a ELSE b

\* Sum of a[lo..hi] (1-based, inclusive), by halves.
RECURSIVE SumRange(_, _, _)
SumRange(a, lo, hi) ==
    IF lo > hi THEN 0
    ELSE IF lo = hi THEN a[lo]
    ELSE SumRange(a, lo, (lo + hi) \div 2)
            + SumRange(a, (lo + hi) \div 2 + 1, hi)

\* All sequences over S of length n, and of length 0..n.
SeqsOfLen(S, n) == [1..n -> S]

SeqsUpTo(S, n) == UNION { SeqsOfLen(S, k) : k \in 0..n }

\* Python's a[start:stop:-1] for explicit start and stop: slice.indices
\* clamps both to -1..len-1 after adding len to a negative value, and the
\* slice walks down from start while the index is above stop.
ClampDown(v, n) ==
    LET w == IF v < 0 THEN v + n ELSE v
    IN  IF w < 0 THEN -1 ELSE IF w >= n THEN n - 1 ELSE w

SliceDown(a, start, stop) ==
    LET n   == Len(a)
        s   == ClampDown(start, n)
        e   == ClampDown(stop, n)
        cnt == IF s > e THEN s - e ELSE 0
    IN  [j \in 1..cnt |-> At(a, s - (j - 1))]

\* Python's a[start:stop] for 0 <= start <= stop <= len.
SliceUp(a, start, stop) == SubSeq(a, start + 1, stop)

\* Reflect with the right end one sample short (stop -half - 1).
ReflectShort(a, half) ==
    SliceDown(a, half, 0) \o a \o SliceDown(a, -2, -half - 1)

\* Padding with zeros in place of the reflected samples.
ReflectZeros(a, half) ==
    [j \in 1..half |-> 0] \o a \o [j \in 1..half |-> 0]

\* The reflection of the end points without repeating them:
\* concatenate((a[half:0:-1], a, a[-2:-half - 2:-1])).
Reflect(a, half) ==
    SliceDown(a, half, 0) \o a \o SliceDown(a, -2, -half - 2)

\* numpy.convolve(a, ones(w) / w, 'valid') without the division by w: the
\* window sums.  numpy swaps the arguments when the kernel is the longer
\* one, and then every output is the whole sum of a; the result has
\* max(len, w) - min(len, w) + 1 entries.  An empty argument raises
\* ValueError: the caller checks ConvolveRaises first.
ConvolveRaises(a, w) == Len(a) = 0 \/ w = 0

ConvolveSums(a, w) ==
    IF Len(a) >= w
    THEN [k \in 1..(Len(a) - w + 1) |-> SumRange(a, k, k + w - 1)]
    ELSE [k \in 1..(w - Len(a) + 1) |-> SumRange(a, 1, Len(a))]

\* Multiply every entry (the values not summed in a pass keep the common
\* denominator).
Scale(a, c) == [k \in 1..Len(a) |-> a[k] * c]


----------------------------------------------------------------------------
(* The values every specification leaves alone get these. *)

NotCalled == <<>>

IdleSmooth ==
    /\ window_width = 0 /\ passes = 0 /\ i = 0

IdleBaseline ==
    /\ eroded = NotCalled /\ dilated = NotCalled

IdleLines ==
    /\ threshold = 1
    /\ fl_window_width = 0 /\ half_width = 0
    /\ residual = NotCalled /\ noise = NotCalled
    /\ pos = 0 /\ min_pos = 0 /\ ranges = <<>> /\ line_indices = <<>>
    /\ iterations = 0

IdleCenters ==
    /\ line_complex = NotCalled /\ centers = NotCalled

IdleMatch ==
    /\ wavs = NotCalled /\ li = 0 /\ found = <<>> /\ verdict = "none"

IdleRun ==
    /\ filenames = <<>> /\ fname = 0 /\ f = <<>> /\ nb_wavs = 0
    /\ alist = <<>> /\ verdicts = <<>>

runVars == <<filenames, fname, f, nb_wavs, alist, verdicts>>

smoothVars == <<window_width, passes, i>>

baselineVars == <<eroded, dilated>>

linesVars == <<threshold, fl_window_width, half_width, residual, noise, pos,
               min_pos, ranges, iterations, line_indices>>

centersVars == <<line_complex, centers>>

matchVars == <<wavs, li, found, verdict>>

----------------------------------------------------------------------------
(* smooth_spectrum(fluxes, window_width, passes) *)

\* smoothed = numpy.array(fluxes)
SmoothStart ==
    /\ pc = "smooth_spectrum"
    /\ smoothed' = fluxes
    /\ den' = 1
    /\ i' = 0
    /\ pc' = "smooth_loop"
    /\ UNCHANGED <<runVars, fluxes, window_width, passes, corrected, fraction_pts,
                   baselineVars, linesVars, centersVars, matchVars>>

\* One pass of the loop: reflect the end points, then the 'valid'
\* convolution with ones(window_width) / window_width.  The sums stay
\* undivided and the common denominator takes the factor window_width.
SmoothPass ==
    /\ pc = "smooth_loop"
    /\ i < passes
    /\ LET padded == Reflect(smoothed, window_width \div 2)
       IN  IF ConvolveRaises(padded, window_width)
           THEN /\ pc' = "error"
                /\ UNCHANGED <<smoothed, den, i>>
           ELSE /\ smoothed' = ConvolveSums(padded, window_width)
                /\ den' = den * window_width
                /\ i' = i + 1
                /\ pc' = "smooth_loop"
    /\ UNCHANGED <<runVars, fluxes, window_width, passes, corrected, fraction_pts,
                   baselineVars, linesVars, centersVars, matchVars>>

\* return smoothed
SmoothReturn ==
    /\ pc = "smooth_loop"
    /\ i >= passes
    /\ pc' = "smooth_done"
    /\ UNCHANGED <<runVars, fluxes, smoothed, den, smoothVars, corrected, fraction_pts,
                   baselineVars, linesVars, centersVars, matchVars>>

\* The inputs of the smoothing specification: every flux sequence of up to
\* MaxSmoothLen samples, the default window width 7 among odd and even
\* ones, one to MaxPasses passes.
SmoothFluxValues == {0, 1, 3}

WindowWidths == {3, 4, 7}

InitSmooth ==
    /\ IdleRun
    /\ pc = "smooth_spectrum"
    /\ fluxes \in SeqsUpTo(SmoothFluxValues, MaxSmoothLen)
    /\ window_width \in WindowWidths
    /\ passes \in 1..MaxPasses
    /\ i = 0
    /\ smoothed = NotCalled /\ den = 1 /\ corrected = NotCalled
    /\ fraction_pts = <<1, 5>>
    /\ IdleBaseline /\ IdleLines /\ IdleCenters /\ IdleMatch

NextSmooth == SmoothStart \/ SmoothPass \/ SmoothReturn

SpecSmooth == InitSmooth /\ [][NextSmooth]_vars

----------------------------------------------------------------------------
(* baseline(fluxes, fraction_pts), called as baseline(smoothed).           *)
(*                                                                         *)
(* scipy.ndimage.morphology.white_tophat(y, structure=ones(nb_pts),        *)
(* mode='reflect') is y minus the grey opening of y: a grey erosion, then  *)
(* a grey dilation of the eroded array, each a minimum or maximum filter   *)
(* over nb_pts samples that extends its own input by reflection with the   *)
(* edge sample repeated (d c b a | a b c d | d c b a).  The erosion        *)
(* subtracts the structure values (all 1) and the dilation adds them back. *)

\* int(fraction_pts * n): numpy.ones(nb_pts) is given the float
\* fraction_pts * len(fluxes) and builds int(nb_pts) entries (the numpy the
\* code was written for truncates a float size; later ones refuse it).
NbPts(n) == (fraction_pts[1] * n) \div fraction_pts[2]

\* mode='reflect' at the 0-based index idx of an array of n >= 1 samples.
ReflectIndex(idx, n) ==
    LET m == idx % (2 * n)
    IN  IF m >= n THEN 2 * n - 1 - m ELSE m

\* The minimum and the maximum of the reflected array over the 0-based
\* positions lo..hi, by halves.
RECURSIVE MinOver(_, _, _)
MinOver(a, lo, hi) ==
    IF lo = hi THEN At(a, ReflectIndex(lo, Len(a)))
    ELSE Min2(MinOver(a, lo, (lo + hi) \div 2),
              MinOver(a, (lo + hi) \div 2 + 1, hi))

RECURSIVE MaxOver(_, _, _)
MaxOver(a, lo, hi) ==
    IF lo = hi THEN At(a, ReflectIndex(lo, Len(a)))
    ELSE Max2(MaxOver(a, lo, (lo + hi) \div 2),
              MaxOver(a, (lo + hi) \div 2 + 1, hi))

\* The filter of size k with origin o covers idx - (k \div 2 + o) up to
\* that plus k - 1.
FilterLo(idx, k, o) == idx - (k \div 2 + o)

\* The structure's value, numpy.ones, over the common denominator.
StructureValue == den

\* grey_erosion(y, structure=ones(k)): origin 0.
GreyErosion(y, k) ==
    [j \in 1..Len(y) |->
        MinOver(y, FilterLo(j - 1, k, 0), FilterLo(j - 1, k, 0) + k - 1)
            - StructureValue]

\* grey_dilation(e, structure=ones(k)): the structure is reversed and the
\* origin negated, and lowered by one for an even size.
DilationOrigin(k) == IF k % 2 = 0 THEN -1 ELSE 0

GreyDilation(e, k) ==
    [j \in 1..Len(e) |->
        MaxOver(e, FilterLo(j - 1, k, DilationOrigin(k)),
                   FilterLo(j - 1, k, DilationOrigin(k)) + k - 1)
            + StructureValue]

Negated(a) == [j \in 1..Len(a) |-> -a[j]]

\* y = -fluxes; the erosion of white_tophat.  An empty structure
\* (fraction_pts * len(fluxes) < 1) is refused by the filter.
BaselineErode ==
    /\ pc = "baseline"
    /\ IF NbPts(Len(smoothed)) = 0
       THEN /\ pc' = "error"
            /\ UNCHANGED eroded
       ELSE /\ eroded' = GreyErosion(Negated(smoothed), NbPts(Len(smoothed)))
            /\ pc' = "baseline_dilate"
    /\ UNCHANGED <<runVars, fluxes, smoothed, den, smoothVars, dilated, corrected,
                   fraction_pts, linesVars, centersVars, matchVars>>

\* The dilation of white_tophat.
BaselineDilate ==
    /\ pc = "baseline_dilate"
    /\ dilated' = GreyDilation(eroded, NbPts(Len(smoothed)))
    /\ pc' = "baseline_tophat"
    /\ UNCHANGED <<runVars, fluxes, smoothed, den, smoothVars, eroded, corrected,
                   fraction_pts, linesVars, centersVars, matchVars>>

\* z = y - opening(y); return -z.
BaselineReturn ==
    /\ pc = "baseline_tophat"
    /\ corrected' = [j \in 1..Len(smoothed) |-> -((-smoothed[j]) - dilated[j])]
    /\ pc' = "baseline_done"
    /\ UNCHANGED <<runVars, fluxes, smoothed, den, smoothVars, eroded, dilated,
                   fraction_pts, linesVars, centersVars, matchVars>>

\* The inputs of the baseline specification: the affine sequences
\* a + b * index of up to MaxAffineLen samples with the default
\* fraction_pts, and every sequence of up to MaxBaselineLen samples with
\* the default and with wider structures.
Affine(n, a, b) == [j \in 1..n |-> a + b * (j - 1)]

AffineInputs ==
    { Affine(n, a, b) : n \in 0..MaxAffineLen, a \in {40, 50}, b \in -2..2 }

BaselineFluxValues == {0, 1, 2}

DefaultFraction == <<1, 5>>

InitBaseline ==
    /\ IdleRun
    /\ pc = "baseline"
    /\ \/ /\ smoothed \in AffineInputs
          /\ fraction_pts = DefaultFraction
       \/ /\ smoothed \in SeqsUpTo(BaselineFluxValues, MaxBaselineLen)
          /\ fraction_pts \in {DefaultFraction, <<1, 2>>, <<1, 1>>}
    /\ den = 1
    /\ fluxes = NotCalled /\ corrected = NotCalled
    /\ IdleSmooth /\ IdleBaseline /\ IdleLines /\ IdleCenters /\ IdleMatch

NextBaseline == BaselineErode \/ BaselineDilate \/ BaselineReturn

SpecBaseline == InitBaseline /\ [][NextBaseline]_vars

----------------------------------------------------------------------------
(* find_centers(line_complex) *)

Sign(x) == IF x > 0 THEN 1 ELSE IF x < 0 THEN -1 ELSE 0

\* numpy.sign(numpy.diff(a))[j], for j in 1..Len(a) - 1.
SignDiff(a, j) == Sign(a[j + 1] - a[j])

\* numpy.diff(numpy.sign(numpy.diff(a)))[j], for j in 1..Len(a) - 2.
Diff2(a, j) == SignDiff(a, j + 1) - SignDiff(a, j)

\* Only the strict minima: a sign change from -1 to 1.
FindCentersStrict(a) ==
    SelectSeq([j \in 1..(Len(a) - 2) |-> j], LAMBDA j : Diff2(a, j) > 1)

\* numpy.where(diff2 > 0.)[0] + 1: the 0-based positions p of diff2 with
\* diff2[p] > 0, plus one; diff2[p] is Diff2(a, p + 1), so the result holds
\* the 0-based indices j of a with Diff2(a, j) > 0, ascending.  An array of
\* fewer than three samples has an empty diff2.
FindCenters(a) ==
    SelectSeq([j \in 1..(Len(a) - 2) |-> j], LAMBDA j : Diff2(a, j) > 0)

FindCentersCall ==
    /\ pc = "find_centers"
    /\ centers' = FindCenters(line_complex)
    /\ pc' = "centers_done"
    /\ UNCHANGED <<runVars, fluxes, smoothed, den, smoothVars, baselineVars, corrected,
                   fraction_pts, linesVars, line_complex, matchVars>>

SegmentValues == {0, 1, 2}

InitCenters ==
    /\ IdleRun
    /\ pc = "find_centers"
    /\ line_complex \in SeqsUpTo(SegmentValues, MaxSegmentLen)
    /\ centers = NotCalled
    /\ fluxes = NotCalled /\ smoothed = NotCalled /\ corrected = NotCalled
    /\ den = 1 /\ fraction_pts = DefaultFraction
    /\ IdleSmooth /\ IdleBaseline /\ IdleLines /\ IdleMatch

NextCenters == FindCentersCall

SpecCenters == InitCenters /\ [][NextCenters]_vars

----------------------------------------------------------------------------
(* find_lines(fluxes, smoothed, corrected, threshold, fraction_pts) *)

\* int(len(fluxes) * fraction_pts / 2) * 2 + 1
LinesWindowWidth(n) ==
    ((n * fraction_pts[1]) \div (fraction_pts[2] * 2)) * 2 + 1

\* numpy's x - xs: elementwise on equal lengths; an array of one sample is
\* broadcast against the other; any other pair of lengths raises ValueError.
Broadcastable(a, b) == Len(a) = Len(b) \/ Len(a) = 1 \/ Len(b) = 1

Pick(a, j) == IF Len(a) = 1 THEN a[1] ELSE a[j]

\* numpy.abs(x - xs)
AbsDiff(a, b) ==
    [j \in 1..(IF Len(a) = 1 THEN Len(b) ELSE Len(a)) |->
        Abs(Pick(a, j) - Pick(b, j))]

\* The residual and the noise.  fluxes is brought to the denominator of
\* smoothed; noise keeps the window sums (numerators over
\* den * window_width).
FindLinesNoise ==
    /\ pc = "find_lines"
    /\ LET ww == LinesWindowWidth(Len(fluxes))
           x  == Reflect(Scale(fluxes, den), ww \div 2)
           xs == Reflect(smoothed, ww \div 2)
       IN  /\ fl_window_width' = ww
           /\ half_width' = ww \div 2
           /\ IF ~Broadcastable(x, xs)
              THEN /\ pc' = "error"
                   /\ UNCHANGED <<residual, noise>>
              ELSE /\ residual' = AbsDiff(x, xs)
                   /\ IF ConvolveRaises(residual', ww)
                      THEN /\ pc' = "error"
                           /\ UNCHANGED noise
                      ELSE /\ noise' = ConvolveSums(residual', ww)
                           /\ pc' = "scan"
    /\ line_indices' = <<>>
    /\ pos' = 0
    /\ iterations' = 0
    /\ UNCHANGED <<runVars, fluxes, smoothed, den, smoothVars, baselineVars, corrected,
                   fraction_pts, threshold, min_pos, ranges, centersVars,
                   matchVars>>

\* The test with <= in place of <.
QualifiesOrEqual(p) ==
    At(corrected, p) * fl_window_width <= -threshold * At(noise, p)

\* corrected[p] < -threshold * noise[p], both sides times the window width.
Qualifies(p) ==
    At(corrected, p) * fl_window_width < -threshold * At(noise, p)

\* The inner while loop from position p: the position it stops at.  It
\* stops at max_pos, at a sample that does not qualify, or at the first
\* index noise does not have (where noise[pos] raises IndexError).
RECURSIVE RunEnd(_)
RunEnd(p) ==
    IF p < Len(corrected) /\ p < Len(noise) /\ Qualifies(p)
    THEN RunEnd(p + 1)
    ELSE p

ScanRaises(p) == p < Len(corrected) /\ p >= Len(noise)

\* A division that fails on a zero divisor, as Python's own float does.
SnRaising(n, d) ==
    IF d # 0 THEN [kind |-> "number", num |-> n, den |-> d]
    ELSE [kind |-> "raised", num |-> n, den |-> d]

\* A numpy float64 division: a zero divisor gives no exception (a
\* RuntimeWarning is printed) and the quotient is nan for 0 / 0 and inf for
\* a positive dividend.  An ordinary quotient is kept as the pair.
Quotient(n, d) ==
    IF d # 0 THEN [kind |-> "number", num |-> n, den |-> d]
    ELSE IF n = 0 THEN [kind |-> "nan", num |-> 0, den |-> 0]
    ELSE [kind |-> "inf", num |-> n, den |-> 0]

\* residual[center] in place of residual[center + half_width].
SignalToNoiseUnshifted(c) ==
    Quotient(At(residual, c) * fl_window_width, At(noise, c))

\* sn = residual[center + half_width] / noise[center]
\*    = (r / den) / (s / (den * window_width)) = r * window_width / s
SignalToNoise(c) ==
    Quotient(At(residual, c + half_width) * fl_window_width, At(noise, c))

\* The (center, sn) pairs of the complex [lo, hi).
ComplexLines(lo, hi) ==
    LET cs == FindCenters(SliceUp(corrected, lo, hi))
    IN  [j \in 1..Len(cs) |->
            [center |-> lo + cs[j], sn |-> SignalToNoise(lo + cs[j])]]

\* The variables the outer while loop works on.
ScanState ==
    [pos |-> pos, min_pos |-> min_pos, ranges |-> ranges,
     iterations |-> iterations, line_indices |-> line_indices,
     raised |-> FALSE]

\* An iteration whose pos += 1 is inside the if: pos moves past a complex
\* only.
ScanIterationStalled(s) ==
    IF s.raised \/ s.pos >= Len(corrected) THEN s
    ELSE LET end == RunEnd(s.pos)
         IN  [pos          |-> IF end > s.pos THEN end + 1 ELSE end,
              min_pos      |-> s.pos,
              ranges       |-> IF end > s.pos
                               THEN Append(s.ranges, <<s.pos, end>>)
                               ELSE s.ranges,
              iterations   |-> s.iterations + 1,
              line_indices |-> IF end > s.pos
                               THEN s.line_indices \o ComplexLines(s.pos, end)
                               ELSE s.line_indices,
              raised       |-> ScanRaises(end)]

\* One iteration of the outer while loop from state s: min_pos = pos, the
\* inner loop, the complex if one was found, pos += 1.  Past the end of the
\* loop (or after an exception) the state stays as it is.
ScanIteration(s) ==
    IF s.raised \/ s.pos >= Len(corrected) THEN s
    ELSE LET end == RunEnd(s.pos)
         IN  IF ScanRaises(end)
             THEN [s EXCEPT !.raised = TRUE, !.min_pos = s.pos, !.pos = end,
                            !.iterations = s.iterations + 1]
             ELSE [pos          |-> end + 1,
                   min_pos      |-> s.pos,
                   ranges       |-> IF end > s.pos
                                    THEN Append(s.ranges, <<s.pos, end>>)
                                    ELSE s.ranges,
                   iterations   |-> s.iterations + 1,
                   line_indices |-> IF end > s.pos
                                    THEN s.line_indices \o ComplexLines(s.pos, end)
                                    ELSE s.line_indices,
                   raised       |-> FALSE]

\* k iterations, k >= 1, composed by halves; nothing runs after an
\* exception.
RECURSIVE ScanIterations(_, _)
ScanIterations(s, k) ==
    IF k <= 1 THEN ScanIteration(s)
    ELSE LET half == ScanIterations(s, k \div 2)
         IN  IF half.raised THEN half
             ELSE ScanIterations(half, k - k \div 2)

\* One iteration of the outer while loop.
ScanStep ==
    /\ pc = "scan"
    /\ pos < Len(corrected)
    /\ LET t == ScanIteration(ScanState)
       IN  /\ pos' = t.pos
           /\ min_pos' = t.min_pos
           /\ ranges' = t.ranges
           /\ iterations' = t.iterations
           /\ line_indices' = t.line_indices
           /\ pc' = IF t.raised THEN "error" ELSE "scan"
    /\ UNCHANGED <<runVars, fluxes, smoothed, den, smoothVars, baselineVars, corrected,
                   fraction_pts, threshold, fl_window_width, half_width,
                   residual, noise, centersVars, matchVars>>

\* return line_indices
ScanReturn ==
    /\ pc = "scan"
    /\ pos >= Len(corrected)
    /\ pc' = "lines_done"
    /\ UNCHANGED <<runVars, fluxes, smoothed, den, smoothVars, baselineVars, corrected,
                   fraction_pts, linesVars, centersVars, matchVars>>

\* The whole outer while loop and the return, as one step: every
\* iteration moves pos forward, so len(corrected) iterations (or an
\* exception) end the loop.
ScanLoop ==
    /\ pc = "scan"
    /\ LET t == ScanIterations(ScanState, Len(corrected))
       IN  /\ t.raised \/ t.pos >= Len(corrected)
           /\ pos' = t.pos
           /\ min_pos' = t.min_pos
           /\ ranges' = t.ranges
           /\ iterations' = t.iterations
           /\ line_indices' = t.line_indices
           /\ pc' = IF t.raised THEN "error" ELSE "lines_done"
    /\ UNCHANGED <<runVars, fluxes, smoothed, den, smoothVars, baselineVars, corrected,
                   fraction_pts, threshold, fl_window_width, half_width,
                   residual, noise, centersVars, matchVars>>

\* The inputs of the line finding specification: every flux and corrected
\* sequence of up to MaxLinesLen samples over small values, a smoothed
\* sequence of the same length (flat, at either flux value), thresholds 1
\* and 2, and the default fraction_pts among wider windows.
LinesFluxValues == {0, 1}

CorrectedValues == {-2, -1, 0}

Thresholds == {1, 2}

InitLines ==
    /\ IdleRun
    /\ pc = "find_lines"
    /\ \E n \in 0..MaxLinesLen :
          /\ fluxes \in SeqsOfLen(LinesFluxValues, n)
          /\ smoothed \in { [j \in 1..n |-> v] : v \in LinesFluxValues }
          /\ corrected \in SeqsOfLen(CorrectedValues, n)
    /\ den = 1
    /\ threshold \in Thresholds
    /\ fraction_pts \in {DefaultFraction, <<1, 1>>}
    /\ fl_window_width = 0 /\ half_width = 0
    /\ residual = NotCalled /\ noise = NotCalled
    /\ pos = 0 /\ min_pos = 0 /\ ranges = <<>> /\ line_indices = <<>>
    /\ iterations = 0
    /\ IdleSmooth /\ IdleBaseline /\ IdleCenters /\ IdleMatch

NextLines == FindLinesNoise \/ ScanStep \/ ScanReturn

SpecLines == InitLines /\ [][NextLines]_vars

\* The interpreter keeps running the loop it is in.
SpecLinesFair == SpecLines /\ WF_vars(NextLines)

----------------------------------------------------------------------------
(* find_helium: the match against HELIUM_LINES and the verdict. *)

\* Wavelengths are integers in units of 1 / WavScale angstrom: the four
\* decimals of the reference wavelengths.
WavScale == 10000

\* HELIUM_I_LINES + HELIUM_II_LINES
HELIUM_LINES ==
    <<38886500, 44715000, 50156780, 58756404, 66781517, 70652153, 46857000>>

\* The tolerance in angstrom.
Tolerance == 5

\* The reference lines within the tolerance, the bound included.
HeliumMatchesInclusive(w) ==
    SelectSeq(HELIUM_LINES, LAMBDA h : Abs(w - h) <= Tolerance * WavScale)

\* The reference lines with abs(wavs[line_index] - heline) < 5.
HeliumMatches(w) ==
    SelectSeq(HELIUM_LINES, LAMBDA h : Abs(w - h) < Tolerance * WavScale)

\* found = []
MatchStart ==
    /\ pc = "lines_done"
    /\ found' = <<>>
    /\ li' = 0
    /\ pc' = "match"
    /\ UNCHANGED <<runVars, fluxes, smoothed, den, smoothVars, baselineVars, corrected,
                   fraction_pts, linesVars, centersVars, wavs, verdict>>

\* One iteration of the loop over line_indices_sn: the loop over
\* HELIUM_LINES appends (wavs[line_index], sn) once per reference line
\* within the tolerance.  wavs[line_index] raises IndexError beyond wavs.
MatchLine ==
    /\ pc = "match"
    /\ li < Len(line_indices)
    /\ LET line == line_indices[li + 1]
       IN  IF line.center >= Len(wavs)
           THEN /\ pc' = "error"
                /\ UNCHANGED <<found, li>>
           ELSE /\ found' = found \o
                      [j \in 1..Len(HeliumMatches(At(wavs, line.center))) |->
                          [wav |-> At(wavs, line.center), sn |-> line.sn]]
                /\ li' = li + 1
                /\ pc' = "match"
    /\ UNCHANGED <<runVars, fluxes, smoothed, den, smoothVars, baselineVars, corrected,
                   fraction_pts, linesVars, centersVars, wavs, verdict>>

\* if len(found) >= 2: print(fname)
MatchVerdict ==
    /\ pc = "match"
    /\ li >= Len(line_indices)
    /\ verdict' = IF Len(found) >= 2 THEN "positive" ELSE "negative"
    /\ pc' = "done"
    /\ UNCHANGED <<runVars, fluxes, smoothed, den, smoothVars, baselineVars, corrected,
                   fraction_pts, linesVars, centersVars, wavs, li, found>>

\* The inputs of the matching specification: the wavelengths are any of
\* these, ascending (4471.5 and 5875.6, wavelengths 5 and just under 5
\* away from a reference line, one near no line), and the detected lines
\* are any of the samples, in ascending order, with either kind of sn.
MatchWavelengths ==
    {44665000, 44715000, 44764999, 46900000, 58756000, 60000000}

RECURSIVE Ascending(_)
Ascending(S) ==
    IF S = {} THEN <<>>
    ELSE LET m == CHOOSE x \in S : \A y \in S : x <= y
         IN  <<m>> \o Ascending(S \ {m})

SnValues ==
    { [kind |-> "number", num |-> 3, den |-> 2],
      [kind |-> "nan", num |-> 0, den |-> 0] }

InitMatch ==
    /\ IdleRun
    /\ pc = "lines_done"
    /\ \E W \in SUBSET MatchWavelengths :
          /\ wavs = Ascending(W)
          /\ \E D \in SUBSET (0..(Cardinality(W) - 1)) :
                /\ Cardinality(D) <= MaxDetected
                /\ \E v \in SnValues :
                      line_indices =
                          [j \in 1..Cardinality(D) |->
                              [center |-> Ascending(D)[j], sn |-> v]]
    /\ li = 0 /\ found = <<>> /\ verdict = "none"
    /\ fluxes = NotCalled /\ smoothed = NotCalled /\ corrected = NotCalled
    /\ den = 1 /\ fraction_pts = DefaultFraction
    /\ threshold = 1
    /\ fl_window_width = 0 /\ half_width = 0
    /\ residual = NotCalled /\ noise = NotCalled
    /\ pos = 0 /\ min_pos = 0 /\ ranges = <<>> /\ iterations = 0
    /\ IdleSmooth /\ IdleBaseline /\ IdleCenters

NextMatch == MatchStart \/ MatchLine \/ MatchVerdict

SpecMatch == InitMatch /\ [][NextMatch]_vars

----------------------------------------------------------------------------
(* find_helium(fname, threshold): the pipeline on one spectrum, from the   *)
(* arrays read from the file to the verdict.                               *)

\* The defaults of smooth_spectrum.
DefaultWindowWidth == 7

DefaultPasses == 3

\* smoothed = smooth_spectrum(fluxes)
HeliumSmooth ==
    /\ pc = "find_helium"
    /\ window_width' = DefaultWindowWidth
    /\ passes' = DefaultPasses
    /\ pc' = "smooth_spectrum"
    /\ UNCHANGED <<runVars, fluxes, smoothed, den, i, baselineVars, corrected,
                   fraction_pts, linesVars, centersVars, matchVars>>

\* corrected = baseline(smoothed)
HeliumBaseline ==
    /\ pc = "smooth_done"
    /\ pc' = "baseline"
    /\ UNCHANGED <<runVars, fluxes, smoothed, den, smoothVars, baselineVars, corrected,
                   fraction_pts, linesVars, centersVars, matchVars>>

\* line_indices_sn = find_lines(fluxes, smoothed, corrected, ...)
HeliumFindLines ==
    /\ pc = "baseline_done"
    /\ pc' = "find_lines"
    /\ UNCHANGED <<runVars, fluxes, smoothed, den, smoothVars, baselineVars, corrected,
                   fraction_pts, linesVars, centersVars, matchVars>>

\* The spectra of the end-to-end scenarios: NbSamples wavelengths evenly
\* spaced over 3700..8000 angstrom (first and last included), a flux flat
\* at 1.0 with DipWidth samples at 0.5.  The pipeline is homogeneous in the
\* flux, which is held in units of 0.5.
NbSamples == 2000

DipWidth == 10

ScenarioWavs ==
    [j \in 1..NbSamples |->
        3700 * WavScale
          + (((j - 1) * 4300) \div (NbSamples - 1)) * WavScale
          + ((((j - 1) * 4300) % (NbSamples - 1)) * WavScale) \div (NbSamples - 1)]

\* The 0-based index of the sample whose wavelength is nearest w.
NearestIndex(w) ==
    CHOOSE c \in 0..(NbSamples - 1) :
        \A d \in 0..(NbSamples - 1) :
            Abs(At(ScenarioWavs, c) - w) <= Abs(At(ScenarioWavs, d) - w)

\* Flat at 1.0 but for the samples lo..lo + DipWidth - 1 (0-based) at 0.5.
DipFluxes(lo) ==
    [j \in 1..NbSamples |->
        IF lo <= j - 1 /\ j - 1 < lo + DipWidth THEN 1 ELSE 2]

\* The dip centered at the sample nearest 5875.6404 angstrom: of the
\* DipWidth samples either DipWidth / 2 or DipWidth / 2 - 1 lie before it.
SingleDipSpectra ==
    { DipFluxes(NearestIndex(HELIUM_LINES[4]) - b) :
        b \in {DipWidth \div 2, DipWidth \div 2 - 1} }

\* Short spectra: SmallLen wavelengths 2 angstrom apart with 4471.5 in
\* the middle, a flux flat at 10 with a dip of one to MaxSmallDip samples
\* at depth 4 or 8 that starts up to MaxShift samples from the middle.
SmallWavs ==
    [j \in 1..SmallLen |->
        HELIUM_LINES[2] + 2 * WavScale * ((j - 1) - SmallLen \div 2)]

SmallFluxes(lo, width, depth) ==
    [j \in 1..SmallLen |->
        IF lo <= j - 1 /\ j - 1 < lo + width THEN 10 - depth ELSE 10]

SmallSpectra ==
    { SmallFluxes(lo, width, depth) :
        lo \in (SmallLen \div 2 - MaxShift)..(SmallLen \div 2 + MaxShift),
        width \in 1..MaxSmallDip, depth \in {4, 8} }

InitHelium ==
    /\ IdleRun
    /\ pc = "find_helium"
    /\ \/ /\ wavs = ScenarioWavs
          /\ fluxes \in SingleDipSpectra
       \/ /\ wavs = SmallWavs
          /\ fluxes \in SmallSpectra
    /\ threshold = 1
    /\ fraction_pts = DefaultFraction
    /\ window_width = 0 /\ passes = 0 /\ i = 0
    /\ smoothed = NotCalled /\ den = 1 /\ corrected = NotCalled
    /\ fl_window_width = 0 /\ half_width = 0
    /\ residual = NotCalled /\ noise = NotCalled
    /\ pos = 0 /\ min_pos = 0 /\ ranges = <<>> /\ line_indices = <<>>
    /\ iterations = 0
    /\ li = 0 /\ found = <<>> /\ verdict = "none"
    /\ IdleBaseline /\ IdleCenters

NextHelium ==
    \/ HeliumSmooth \/ SmoothStart \/ SmoothPass \/ SmoothReturn
    \/ HeliumBaseline \/ BaselineErode \/ BaselineDilate \/ BaselineReturn
    \/ HeliumFindLines \/ FindLinesNoise \/ ScanLoop
    \/ MatchStart \/ MatchLine \/ MatchVerdict

Spec == InitHelium /\ [][NextHelium]_vars

----------------------------------------------------------------------------
(* read_list(f, nb_freqs) and the reading part of find_helium.             *)
(*                                                                         *)
(* A file is the sequence of its lines and a line the sequence of its      *)
(* characters (one-character strings), the newline included.  The          *)
(* characters of the model are the digits, ".", "-", "+", " " and the      *)
(* newline: the spellings of a float with an exponent, "inf", "nan" or "_" *)
(* do not occur.  float() gives the value in units of 1/WavScale, which    *)
(* holds four decimals: the files of the model have no more.               *)

MaxFileLines == 3

MaxFiles == 2

Whitespace == {" ", "\n"}

Digits == {"0", "1", "2", "3", "4", "5", "6", "7", "8", "9"}

DigitChars == <<"0", "1", "2", "3", "4", "5", "6", "7", "8", "9">>

DigitValue(c) == (CHOOSE d \in 1..10 : DigitChars[d] = c) - 1

\* s.count(c)
Count(s, c) == Cardinality({k \in 1..Len(s) : s[k] = c})

\* line.split(): the maximal runs of characters that are not whitespace.
TokenStarts(line) ==
    SelectSeq([k \in 1..Len(line) |-> k],
              LAMBDA k : /\ line[k] \notin Whitespace
                         /\ (k = 1 \/ line[k - 1] \in Whitespace))

TokenEnd(line, k) ==
    CHOOSE e \in k..Len(line) :
        /\ \A j \in k..e : line[j] \notin Whitespace
        /\ (e = Len(line) \/ line[e + 1] \in Whitespace)

Split(line) ==
    LET starts == TokenStarts(line)
    IN  [t \in 1..Len(starts) |->
            SubSeq(line, starts[t], TokenEnd(line, starts[t]))]

\* well_splitted: no entry has more than one ".".
WellSplitted(splitted) ==
    \A t \in 1..Len(splitted) : Count(splitted[t], ".") <= 1

\* The widths of the fixed columns.
SdssWidth == 12

PlainWidth == 8

\* [line[i:i+w] for i in range(0, len(line) - 1, w)]
Chunks(line, w) ==
    LET cnt == IF Len(line) - 1 <= 0 THEN 0
               ELSE (Len(line) - 1 + w - 1) \div w
    IN  [j \in 1..cnt |->
            SubSeq(line, (j - 1) * w + 1, Min2(j * w, Len(line)))]

\* The entries of one line.
Entries(line) ==
    IF WellSplitted(Split(line)) THEN Split(line)
    ELSE IF Count(line, "-") > 0 THEN Chunks(line, SdssWidth)
    ELSE Chunks(line, PlainWidth)

\* float() and int() ignore the whitespace around the number.
Strip(s) ==
    LET inked == {k \in 1..Len(s) : s[k] \notin Whitespace}
    IN  IF inked = {} THEN <<>>
        ELSE SubSeq(s, CHOOSE k \in inked : \A j \in inked : k <= j,
                       CHOOSE k \in inked : \A j \in inked : k >= j)

Unsigned(t) ==
    IF t # <<>> /\ t[1] \in {"-", "+"} THEN Tail(t) ELSE t

SignOf(t) == IF t # <<>> /\ t[1] = "-" THEN -1 ELSE 1

\* The number written by the first n digits of a sequence of digits.
RECURSIVE IntOfPrefix(_, _)
IntOfPrefix(digs, n) ==
    IF n = 0 THEN 0
    ELSE IntOfPrefix(digs, n - 1) * 10 + DigitValue(digs[n])

IntOf(digs) == IntOfPrefix(digs, Len(digs))

\* int(entry) raises ValueError unless the entry is an optional sign and
\* digits.
IsInt(entry) ==
    LET body == Unsigned(Strip(entry))
    IN  /\ body # <<>>
        /\ \A k \in 1..Len(body) : body[k] \in Digits

IntValue(entry) == SignOf(Strip(entry)) * IntOf(Unsigned(Strip(entry)))

\* float(entry) raises ValueError unless the entry is an optional sign,
\* digits and at most one ".", with a digit somewhere.
IsFloat(entry) ==
    LET body == Unsigned(Strip(entry))
    IN  /\ \A k \in 1..Len(body) : body[k] \in Digits \cup {"."}
        /\ Count(body, ".") <= 1
        /\ \E k \in 1..Len(body) : body[k] \in Digits

\* The value of float(entry) in units of 1/WavScale.
FloatValue(entry) ==
    LET body  == Unsigned(Strip(entry))
        dot   == IF Count(body, ".") = 0 THEN Len(body) + 1
                 ELSE CHOOSE k \in 1..Len(body) : body[k] = "."
        whole == SubSeq(body, 1, dot - 1)
        frac  == SubSeq(body, dot + 1, Min2(Len(body), dot + 4))
        pad   == [k \in 1..(4 - Len(frac)) |-> "0"]
    IN  SignOf(Strip(entry)) * (IntOf(whole) * WavScale + IntOf(frac \o pad))

\* try: alist.append(float(entry)) / except ValueError: alist.append(0)
FloatOrZero(entry) == IF IsFloat(entry) THEN FloatValue(entry) ELSE 0

\* f.readline(): the next line, and the empty string at the end of file.
ReadLine(file) == IF file = <<>> THEN <<>> ELSE Head(file)

AfterReadLine(file) == IF file = <<>> THEN file ELSE Tail(file)

pipelineVars == <<smoothed, den, smoothVars, baselineVars, corrected,
                  fraction_pts, linesVars, centersVars, li, found, verdict>>

\* f = open(fname): IOError when the file cannot be opened.
Open ==
    /\ pc = "open"
    /\ IF At(filenames, fname).exists
       THEN /\ f' = At(filenames, fname).lines
            /\ pc' = "header"
       ELSE /\ pc' = "error"
            /\ UNCHANGED f
    /\ UNCHANGED <<filenames, fname, nb_wavs, alist, verdicts, wavs, fluxes,
                   pipelineVars>>

\* nb_wavs = int(f.readline().split()[0]): IndexError on a line without
\* entries (a blank line, the end of file), ValueError on an entry that is
\* not an integer.
Header ==
    /\ pc = "header"
    /\ \E splitted \in {Split(ReadLine(f))} :
           IF splitted # <<>> /\ IsInt(splitted[1])
           THEN /\ nb_wavs' = IntValue(splitted[1])
                /\ pc' = "read_wavs"
           ELSE /\ pc' = "error"
                /\ UNCHANGED nb_wavs
    /\ f' = AfterReadLine(f)
    /\ alist' = <<>>
    /\ UNCHANGED <<filenames, fname, verdicts, wavs, fluxes, pipelineVars>>

\* One iteration of the loop of read_list: read a line, append the value
\* of each of its entries.
ReadListLine ==
    /\ pc \in {"read_wavs", "read_fluxes"}
    /\ Len(alist) < nb_wavs
    /\ \E entries \in {Entries(ReadLine(f))} :
          alist' = alist \o [k \in 1..Len(entries) |-> FloatOrZero(entries[k])]
    /\ f' = AfterReadLine(f)
    /\ UNCHANGED <<pc, filenames, fname, nb_wavs, verdicts, wavs, fluxes,
                   pipelineVars>>

\* wavs = read_list(f, nb_wavs): the loop is over, the whole list is
\* returned and the second call starts with its own empty list.
ReadWavsReturn ==
    /\ pc = "read_wavs"
    /\ Len(alist) >= nb_wavs
    /\ wavs' = alist
    /\ alist' = <<>>
    /\ pc' = "read_fluxes"
    /\ UNCHANGED <<filenames, fname, f, nb_wavs, verdicts, fluxes,
                   pipelineVars>>

\* fluxes = read_list(f, nb_wavs); f.close()
ReadFluxesReturn ==
    /\ pc = "read_fluxes"
    /\ Len(alist) >= nb_wavs
    /\ fluxes' = alist
    /\ alist' = <<>>
    /\ f' = <<>>
    /\ pc' = "find_helium"
    /\ UNCHANGED <<filenames, fname, nb_wavs, verdicts, wavs, pipelineVars>>

\* The locals of find_helium before the call.
IdleHelium ==
    /\ wavs = NotCalled /\ fluxes = NotCalled
    /\ threshold = 1
    /\ fraction_pts = DefaultFraction
    /\ window_width = 0 /\ passes = 0 /\ i = 0
    /\ smoothed = NotCalled /\ den = 1 /\ corrected = NotCalled
    /\ fl_window_width = 0 /\ half_width = 0
    /\ residual = NotCalled /\ noise = NotCalled
    /\ pos = 0 /\ min_pos = 0 /\ ranges = <<>> /\ line_indices = <<>>
    /\ iterations = 0
    /\ li = 0 /\ found = <<>> /\ verdict = "none"
    /\ IdleBaseline /\ IdleCenters

Missing == [exists |-> FALSE, lines |-> <<>>]

TextFile(lines) == [exists |-> TRUE, lines |-> lines]

\* The lines of the files read: headers, values split by blanks, a blank
\* line, values glued in fixed columns, an entry that is no number, a last
\* line without its newline.
ReadLineSet ==
    { <<"2", "\n">>,
      <<"1", " ", "2", "\n">>,
      <<"1", ".", "5", "\n">>,
      <<"\n">>,
      <<"1", ".", "1", ".", "1", " ", "-", "\n">>,
      <<"1", ".", "0", "0", "0", "0", "0", "0",
        "2", ".", "2", "5", "0", "0", "0", "0", "\n">>,
      <<"3", " ", "4", " ", "5">> }

InitRead ==
    /\ pc = "open"
    /\ \/ filenames = <<Missing>>
       \/ \E lines \in SeqsUpTo(ReadLineSet, MaxFileLines) :
             filenames = <<TextFile(lines)>>
    /\ fname = 0 /\ f = <<>> /\ nb_wavs = 0 /\ alist = <<>> /\ verdicts = <<>>
    /\ IdleHelium

NextRead ==
    Open \/ Header \/ ReadListLine \/ ReadWavsReturn \/ ReadFluxesReturn

\* The interpreter keeps running the loop it is in.
SpecRead == InitRead /\ [][NextRead]_vars /\ WF_vars(NextRead)

----------------------------------------------------------------------------
(* run(argv): find_helium on every file of the command line, in order.     *)

\* for fname in args.filenames: the next file, or the end of the loop.
RunLoop ==
    /\ pc = "run"
    /\ pc' = IF fname < Len(filenames) THEN "open" ELSE "exit"
    /\ UNCHANGED <<runVars, wavs, fluxes, pipelineVars>>

\* find_helium returns (the file name printed or not): its locals are
\* gone and the loop goes on.
FindHeliumReturn ==
    /\ pc = "done"
    /\ verdicts' = Append(verdicts, verdict)
    /\ fname' = fname + 1
    /\ pc' = "run"
    /\ wavs' = NotCalled /\ fluxes' = NotCalled
    /\ window_width' = 0 /\ passes' = 0 /\ i' = 0
    /\ smoothed' = NotCalled /\ den' = 1 /\ corrected' = NotCalled
    /\ eroded' = NotCalled /\ dilated' = NotCalled
    /\ fl_window_width' = 0 /\ half_width' = 0
    /\ residual' = NotCalled /\ noise' = NotCalled
    /\ pos' = 0 /\ min_pos' = 0 /\ ranges' = <<>> /\ line_indices' = <<>>
    /\ iterations' = 0
    /\ li' = 0 /\ found' = <<>> /\ verdict' = "none"
    /\ UNCHANGED <<filenames, f, nb_wavs, alist, threshold, fraction_pts,
                   centersVars>>

\* The text of a spectrum file: the sample count, the wavelengths, the
\* fluxes, ValuesPerLine values to a line with four decimals each.
ValuesPerLine == 10

RECURSIVE FormatInt(_)
FormatInt(n) ==
    IF n < 10 THEN <<DigitChars[n + 1]>>
    ELSE FormatInt(n \div 10) \o <<DigitChars[(n % 10) + 1]>>

FormatFixed(v) ==
    FormatInt(v \div WavScale) \o <<".">>
        \o [k \in 1..4 |->
              DigitChars[(((v % WavScale) \div <<1000, 100, 10, 1>>[k]) % 10) + 1]]

RECURSIVE FormatValues(_, _)
FormatValues(vals, n) ==
    IF n = 0 THEN <<>>
    ELSE FormatValues(vals, n - 1)
            \o (IF n > 1 THEN <<" ">> ELSE <<>>) \o FormatFixed(vals[n])

FormatList(vals) ==
    [r \in 1..((Len(vals) + ValuesPerLine - 1) \div ValuesPerLine) |->
        LET row == SubSeq(vals, (r - 1) * ValuesPerLine + 1,
                          Min2(r * ValuesPerLine, Len(vals)))
        IN  FormatValues(row, Len(row)) \o <<"\n">>]

SpectrumFile(w, fl) ==
    TextFile(<<FormatInt(Len(w)) \o <<"\n">>>> \o FormatList(w)
                \o FormatList(fl))

\* The files of a batch: one that cannot be opened, an empty one, one of
\* no sample, one of two samples, one that ends before its fluxes, one of
\* five samples, and two short spectra with a dip at 4471.5 angstrom (flux
\* 1.0, dip at 0.2) of two and of three samples.
BatchFiles ==
    { Missing,
      TextFile(<<>>),
      TextFile(<< <<"0", "\n">> >>),
      TextFile(<< <<"2", "\n">>, <<"1", " ", "2", "\n">>,
                  <<"1", " ", "1", "\n">> >>),
      TextFile(<< <<"2", "\n">>, <<"1", " ", "2", "\n">> >>),
      TextFile(<< <<"5", "\n">>,
                  <<"1", " ", "2", " ", "3", " ", "4", " ", "5", "\n">>,
                  <<"1", " ", "1", " ", "1", " ", "1", " ", "1", "\n">> >>),
      SpectrumFile(SmallWavs,
                   Scale(SmallFluxes(SmallLen \div 2, 2, 8), WavScale \div 10)),
      SpectrumFile(SmallWavs,
                   Scale(SmallFluxes(SmallLen \div 2 - 3, 3, 8),
                         WavScale \div 10)) }

\* argparse takes one file name or more (nargs='+').
InitRun ==
    /\ pc = "run"
    /\ \E n \in 1..MaxFiles : filenames \in SeqsOfLen(BatchFiles, n)
    /\ fname = 0 /\ f = <<>> /\ nb_wavs = 0 /\ alist = <<>> /\ verdicts = <<>>
    /\ IdleHelium

NextRun ==
    \/ RunLoop \/ Open \/ Header
    \/ ReadListLine \/ ReadWavsReturn \/ ReadFluxesReturn
    \/ HeliumSmooth \/ SmoothStart \/ SmoothPass \/ SmoothReturn
    \/ HeliumBaseline \/ BaselineErode \/ BaselineDilate \/ BaselineReturn
    \/ HeliumFindLines \/ FindLinesNoise \/ ScanLoop
    \/ MatchStart \/ MatchLine \/ MatchVerdict
    \/ FindHeliumReturn

\* The interpreter keeps running the program.
SpecRun == InitRun /\ [][NextRun]_vars /\ WF_vars(NextRun)

----------------------------------------------------------------------------
(* Claims about smooth_spectrum, under SpecSmooth. *)

InSmooth == pc \in {"smooth_loop", "smooth_done"}

ValidWindow ==
    /\ window_width >= 3
    /\ window_width % 2 = 1
    /\ Len(fluxes) >= window_width

IsConstant(a) == \A j \in 1..Len(a) : a[j] = a[1]

\* C7: smooth_spectrum is length-preserving: for an odd window_width >= 3,
\* a flux sequence of at least window_width samples and passes >= 1, the
\* smoothed sequence has the length of the fluxes after every pass and at
\* the return.
C7_SmoothLengthPreserved ==
    (InSmooth /\ ValidWindow) => Len(smoothed) = Len(fluxes)

C7_Witness ==
    /\ pc = "smooth_done"
    /\ ValidWindow
    /\ window_width = 7
    /\ i = passes /\ passes >= 2
    /\ Len(smoothed) = Len(fluxes)

\* C8: smoothing a constant flux sequence (every sample k) returns k at
\* every sample, the ones near both ends included: every numerator of
\* smoothed is k * den, after every pass and at the return.
C8_SmoothConstant ==
    (InSmooth /\ ValidWindow /\ IsConstant(fluxes))
        => \A j \in 1..Len(smoothed) : smoothed[j] = fluxes[1] * den

C8_Witness ==
    /\ pc = "smooth_done"
    /\ ValidWindow
    /\ IsConstant(fluxes) /\ fluxes[1] = 3
    /\ window_width = 7
    /\ i = passes /\ passes >= 2
    /\ Len(smoothed) = Len(fluxes)
    /\ \A j \in 1..Len(smoothed) : smoothed[j] = 3 * den

\* C10: a window width greater than or equal to the spectrum length is
\* reported as an error: smooth_spectrum never returns a result for it.
C10_DegenerateWindowReported ==
    pc = "smooth_done" => Len(fluxes) > window_width

----------------------------------------------------------------------------
(* Claims about baseline, under SpecBaseline. *)

IsAffine(a) ==
    Len(a) >= 2 => \A j \in 1..Len(a) : a[j] = a[1] + (j - 1) * (a[2] - a[1])

\* C9: baseline of a constant or linear flux sequence is zero at every
\* index, the ones near both ends included.
C9_BaselineOfContinuumZero ==
    (pc = "baseline_done" /\ IsAffine(smoothed))
        => \A j \in 1..Len(corrected) : corrected[j] = 0

----------------------------------------------------------------------------
(* Claims about find_centers, under SpecCenters. *)

\* The 0-based interior index c of a is no greater than both neighbours
\* and strictly smaller than at least one of them.
IsValleyPoint(a, c) ==
    /\ 1 <= c /\ c <= Len(a) - 2
    /\ At(a, c) <= At(a, c - 1)
    /\ At(a, c) <= At(a, c + 1)
    /\ (At(a, c) < At(a, c - 1) \/ At(a, c) < At(a, c + 1))

StrictlyIncreasing(q) == \A j \in 1..(Len(q) - 1) : q[j] < q[j + 1]

Elements(q) == { q[j] : j \in 1..Len(q) }

\* C3: find_centers returns, in strictly increasing order, exactly the
\* interior indices at which the segment is no greater than both neighbours
\* and strictly smaller than at least one of them; nothing for a segment of
\* fewer than three samples; two centers for two strict interior minima
\* separated by a higher sample.
C3_CentersAreValleyPoints ==
    pc = "centers_done" =>
        /\ StrictlyIncreasing(centers)
        /\ Elements(centers)
              = { c \in 0..(Len(line_complex) - 1) : IsValleyPoint(line_complex, c) }
        /\ (Len(line_complex) < 3 => centers = <<>>)
        /\ \A c \in Elements(centers) :
              SignDiff(line_complex, c + 1) > SignDiff(line_complex, c)

C3_Witness ==
    /\ pc = "centers_done"
    /\ line_complex = <<2, 0, 1, 0, 2>>
    /\ centers = <<1, 3>>

----------------------------------------------------------------------------
(* Claims about find_lines, under SpecLines. *)

Scanning == pc \in {"scan", "lines_done"}

\* corrected[p] < -threshold * noise[p], as the claims state it.
BelowThreshold(p) ==
    At(corrected, p) * fl_window_width < (-threshold) * At(noise, p)

InSomeRange(p) ==
    \E j \in 1..Len(ranges) : ranges[j][1] <= p /\ p < ranges[j][2]

\* C2: the ranges [min_pos, pos) the scan handles are exactly the maximal
\* runs of indices with corrected[i] < -threshold * noise[i]: non-empty,
\* in strictly increasing order and disjoint, every index inside
\* qualifies, the index before and the index after do not, and every
\* qualifying index the scan has passed lies in a range.
C2_RangesAreMaximalRuns ==
    Scanning =>
        /\ \A j \in 1..Len(ranges) :
              /\ 0 <= ranges[j][1]
              /\ ranges[j][1] < ranges[j][2]
              /\ ranges[j][2] <= Len(corrected)
              /\ \A p \in ranges[j][1]..(ranges[j][2] - 1) : BelowThreshold(p)
              /\ ranges[j][1] > 0 => ~BelowThreshold(ranges[j][1] - 1)
              /\ ranges[j][2] < Len(corrected) => ~BelowThreshold(ranges[j][2])
        /\ \A j \in 1..(Len(ranges) - 1) : ranges[j][2] <= ranges[j + 1][1]
        /\ \A p \in 0..(Len(corrected) - 1) :
              (BelowThreshold(p) /\ (p < pos \/ pc = "lines_done"))
                  => InSomeRange(p)

C2_Witness ==
    /\ pc = "lines_done"
    /\ Len(corrected) = 4
    /\ ranges = << <<0, 2>>, <<3, 4>> >>
    /\ ~BelowThreshold(2)

\* The index of the sample the reflection without repeated end points puts
\* at position p of an array of n samples, p in -(n - 1)..2 * (n - 1).
Mirror(p, n) == IF p < 0 THEN -p ELSE IF p > n - 1 THEN 2 * (n - 1) - p ELSE p

\* |fluxes[p] - smoothed[p]|, over den.
ResidualAt(p) == Abs(At(fluxes, p) * den - At(smoothed, p))

RECURSIVE WindowResidual(_, _, _)
WindowResidual(c, lo, hi) ==
    IF lo > hi THEN 0
    ELSE IF lo = hi THEN ResidualAt(Mirror(c + lo, Len(fluxes)))
    ELSE WindowResidual(c, lo, (lo + hi) \div 2)
            + WindowResidual(c, (lo + hi) \div 2 + 1, hi)

\* C5: for every recorded center c the index c + half_width is inside the
\* residual buffer, residual[c + half_width] is |fluxes[c] - smoothed[c]|,
\* noise[c] is the mean of the reflected residual over the window of
\* window_width samples centered at c, and the recorded sn is
\* residual[c + half_width] / noise[c].
C5_SnIsResidualOverNoise ==
    Scanning =>
        \A j \in 1..Len(line_indices) :
            LET c  == line_indices[j].center
                sn == line_indices[j].sn
            IN  /\ 0 <= c /\ c < Len(noise)
                /\ c + half_width < Len(residual)
                /\ fl_window_width = 2 * half_width + 1
                /\ At(residual, c + half_width) = ResidualAt(c)
                /\ At(noise, c) = WindowResidual(c, -half_width, half_width)
                /\ sn.kind = "number" =>
                      /\ At(noise, c) # 0
                      /\ sn.num * At(noise, c)
                            = ResidualAt(c) * fl_window_width * sn.den

C5_Witness ==
    /\ pc = "lines_done"
    /\ half_width >= 1
    /\ \E j \in 1..Len(line_indices) :
          /\ line_indices[j].sn.kind = "number"
          /\ line_indices[j].sn.num > 0
          /\ At(residual, line_indices[j].center)
                # At(residual, line_indices[j].center + half_width)

\* The centers of the complex [lo, hi): the indices strictly inside it
\* that are valley points of corrected within it.
IsCenterOf(c, lo, hi) ==
    /\ lo < c /\ c < hi - 1
    /\ IsValleyPoint(SliceUp(corrected, lo, hi), c - lo)

Recorded(c) ==
    \E j \in 1..Len(line_indices) : line_indices[j].center = c

\* C6: a zero noise[c] at a resolved center c does not end find_lines in an
\* error: the line is recorded, and its sn is the undefined or infinite
\* value (nan or inf), not an ordinary number.
C6_ZeroNoiseGivesSentinel ==
    Scanning =>
        /\ \A j \in 1..Len(ranges) :
              \A c \in ranges[j][1]..(ranges[j][2] - 1) :
                  IsCenterOf(c, ranges[j][1], ranges[j][2]) => Recorded(c)
        /\ \A j \in 1..Len(line_indices) :
              At(noise, line_indices[j].center) = 0
                  => line_indices[j].sn.kind \in {"nan", "inf"}
        /\ \A j \in 1..Len(line_indices) :
              line_indices[j].sn.kind \in {"nan", "inf", "number"}

C6_Witness ==
    /\ pc = "lines_done"
    /\ \E j \in 1..Len(line_indices) :
          /\ At(noise, line_indices[j].center) = 0
          /\ line_indices[j].sn.kind = "nan"
          /\ At(corrected, line_indices[j].center) < 0

----------------------------------------------------------------------------
(* Claims about the match of find_helium, under SpecMatch. *)

Matching == pc \in {"match", "done"}

\* The reference lines strictly less than 5 angstrom from wavelength w.
LinesNear(w) ==
    { m \in 1..Len(HELIUM_LINES) :
        (w - HELIUM_LINES[m] < 5 * WavScale) /\ (HELIUM_LINES[m] - w < 5 * WavScale) }

DetectedWav(j) == At(wavs, line_indices[j].center)

DetectedWavs == { DetectedWav(j) : j \in 1..Len(line_indices) }

\* C1: found holds one entry (wavelength, snr) for every pair of a
\* detected line and a reference wavelength less than 5 away, in detection
\* order; the verdict is positive if and only if found has at least 2
\* entries; detected lines at 4471.5 and 5875.6 give a positive verdict,
\* a single one at 4471.5 a negative one.
C1_MatchesAndVerdict ==
    Matching =>
        /\ \A j \in 1..li :
              Cardinality({ k \in 1..Len(found) :
                              found[k] = [wav |-> DetectedWav(j),
                                          sn  |-> line_indices[j].sn] })
                  = Cardinality(LinesNear(DetectedWav(j)))
        /\ \A k \in 1..Len(found) :
              \E j \in 1..li : found[k].wav = DetectedWav(j)
        /\ \A k \in 1..(Len(found) - 1) : found[k].wav <= found[k + 1].wav
        /\ pc = "done" =>
              /\ li = Len(line_indices)
              /\ verdict = "positive" <=> Len(found) >= 2
              /\ verdict \in {"positive", "negative"}
              /\ DetectedWavs = {44715000, 58756000} => verdict = "positive"
              /\ DetectedWavs = {44715000} => verdict = "negative"

C1_Witness ==
    /\ pc = "done"
    /\ DetectedWavs = {44715000, 58756000}
    /\ Len(found) = 2
    /\ found[1].wav = 44715000 /\ found[2].wav = 58756000
    /\ verdict = "positive"

----------------------------------------------------------------------------
(* Claims about the whole of find_helium, under Spec. *)

\* C4: the spectrum flat at 1.0 with a single 10-sample dip to 0.5 at the
\* sample nearest 5875.6404 angstrom yields fewer than 2 matches: a
\* negative verdict.
C4_SingleDipNegative ==
    (pc = "done" /\ Len(fluxes) = NbSamples /\ fluxes \in SingleDipSpectra)
        => (Len(found) < 2 /\ verdict = "negative")


----------------------------------------------------------------------------
(* Claims about read_list, under SpecRead. *)

\* read_list is in its loop, short of nb_freqs values, with every line of
\* the file read.
EndOfFileInLoop ==
    /\ pc \in {"read_wavs", "read_fluxes"}
    /\ f = <<>>
    /\ Len(alist) < nb_wavs

\* C11: when the file holds fewer values than its header declares, reading
\* it stops and the mismatch is reported: once read_list has reached the
\* end of the file short of nb_freqs values, find_helium ends with an
\* error.
C11_ShortFileReported == EndOfFileInLoop ~> (pc = "error")


----------------------------------------------------------------------------
(* Claims about run, under SpecRun. *)

\* find_helium has raised on a file that is not the last of the batch.
ErrorBeforeLastFile ==
    /\ pc = "error"
    /\ fname + 1 < Len(filenames)

\* C12: an error raised while one file of a batch is processed is confined
\* to that file: after it the loop of run goes on to the next file.
C12_ErrorConfined == ErrorBeforeLastFile ~> (pc = "run")


----------------------------------------------------------------------------
(* Claims about the scan of find_lines, under SpecLinesFair. *)

\* An iteration of the outer loop: pos moves forward by one at least and
\* to len(corrected) + 1 at most, and no index is out of range (the scan
\* goes on).
ScanProgress ==
    (pc = "scan" /\ pos < Len(corrected)) =>
        /\ pos' >= pos + 1
        /\ pos' <= Len(corrected) + 1
        /\ iterations' = iterations + 1
        /\ pc' = "scan"

\* During and after the scan: pos is at most len(corrected) + 1, the outer
\* loop has run at most len(corrected) times, noise has an entry for every
\* index of corrected, and every center recorded is an index of corrected
\* whose residual exists.
ScanBounded ==
    pc \in {"scan", "lines_done"} =>
        /\ 0 <= pos /\ pos <= Len(corrected) + 1
        /\ iterations <= Len(corrected)
        /\ Len(noise) = Len(corrected)
        /\ \A j \in 1..Len(line_indices) :
              /\ 0 <= line_indices[j].center
              /\ line_indices[j].center < Len(corrected)
              /\ line_indices[j].center + half_width < Len(residual)

\* C13: the scan of find_lines terminates: every iteration of the outer
\* loop moves pos forward by at least one (also when no sample qualifies
\* at pos), pos never exceeds len(corrected) + 1, no array is indexed at or
\* beyond len(corrected), the outer loop runs at most len(corrected) times,
\* and find_lines returns (or raises before the scan).
C13_ScanTerminates ==
    /\ [][ScanProgress]_vars
    /\ []ScanBounded
    /\ <>(pc \in {"lines_done", "error"})

\* A scan over three samples or more that has ended with pos one past
\* len(corrected), after iterations that found a complex and at least one
\* that found none.
C13_Witness ==
    /\ pc = "lines_done"
    /\ Len(corrected) >= 3
    /\ pos = Len(corrected) + 1
    /\ ranges # <<>>
    /\ iterations > Len(ranges)


----------------------------------------------------------------------------
(* Claims about the valleys of find_centers, under SpecCenters. *)

\* A segment that descends strictly to a bottom and then ascends strictly:
\* the bottom is the samples lo..hi (1-based), one sample or several equal
\* ones, with samples on both sides.
SingleValley(a) ==
    \E lo \in 2..(Len(a) - 1) : \E hi \in lo..(Len(a) - 1) :
        /\ \A j \in 1..(lo - 1) : a[j] > a[j + 1]
        /\ \A j \in lo..(hi - 1) : a[j] = a[j + 1]
        /\ \A j \in hi..(Len(a) - 1) : a[j] < a[j + 1]

\* C14: find_centers returns exactly one center for a segment with one
\* valley, also when the bottom of the valley is flat.
C14_OneCenterPerValley ==
    (pc = "centers_done" /\ SingleValley(line_complex)) => Len(centers) = 1

=============================================================================
